---- MODULE Spec2Model ----
(***************************************************************************)
(* Model of src/ris_full_workflow.py: the RIS automation script.           *)
(*                                                                         *)
(* The script is sequential.  Its state is the module globals and the      *)
(* locals of the __main__ block, the files it keeps at fixed paths, and    *)
(* what it has done to the outside world (console prompts, UI steps, keys  *)
(* typed into the report editor).  The host application, the clipboard and *)
(* the inference endpoint are the environment: each call into them draws   *)
(* its outcome from a small set.                                           *)
(*                                                                         *)
(* Texts are sequences of one-character strings.                           *)
(***************************************************************************)
EXTENDS Integers, Sequences, FiniteSets, TLC

\* Largest report count typed at the "Number of reports" prompt.
MaxReports == 2

VARIABLES
    pc,               \* position in the __main__ block
    HF_TOKEN,         \* module global, line 54
    HF_ENDPOINT_URL,  \* module global, line 55
    num_reports,      \* __main__ local
    it,               \* next index range(num_reports) will yield
    report_num,       \* __main__ loop variable
    all_succeeded,    \* __main__ local
    findings,         \* __main__ local: what analyze_image() returned
    imageFile,        \* the file at TEMP_IMAGE_PATH
    reportFile,       \* the file at REPORT_PATH
    rawLog,           \* raw_output.txt: the texts appended to it, in order
    log,              \* workflow_log.txt: the entries appended to it, in order
    console,          \* the input() prompts shown so far
    steps,            \* the automation steps executed so far
    typed,            \* the key strings injected into the EXAM box
    lastResponse,     \* the endpoint's answer to the latest analyze_image()
    raised,           \* an exception reached the top-level handler
    exitCode,         \* status passed to sys.exit(), 0 if the script ran off its end
    captures,         \* the images persisted so far: the report and the study shown
    writes,           \* the file writes of analyze_image() so far, in order
    fn                \* the function looked at on its own: its input and locals

vars == <<pc, HF_TOKEN, HF_ENDPOINT_URL, num_reports, it, report_num,
          all_succeeded, findings, imageFile, reportFile, rawLog, log,
          console, steps, typed, lastResponse, raised, exitCode,
          captures, writes, fn>>

----------------------------------------------------------------------------
(* Text primitives (Python str methods), computed as Python computes them. *)

\* The characters str.strip() with no argument removes.
Whitespace == {" ", "\n", "\r", "\t"}

RECURSIVE lstrip(_, _)
lstrip(s, chars) ==
    IF s # <<>> /\ Head(s) \in chars THEN lstrip(Tail(s), chars) ELSE s

RECURSIVE rstrip(_, _)
rstrip(s, chars) ==
    IF s # <<>> /\ s[Len(s)] \in chars
    THEN rstrip(SubSeq(s, 1, Len(s) - 1), chars)
    ELSE s

strip(s, chars) == rstrip(lstrip(s, chars), chars)

Range(f) == {f[x] : x \in DOMAIN f}

Digits == <<"0", "1", "2", "3", "4", "5", "6", "7", "8", "9">>

\* str(n) for n >= 0.
RECURSIVE DecimalText(_)
DecimalText(n) ==
    IF n < 10 THEN <<Digits[n + 1]>>
    ELSE DecimalText(n \div 10) \o <<Digits[(n % 10) + 1]>>

DigitValue(c) == CHOOSE d \in 0..9 : Digits[d + 1] = c

RECURSIVE DecimalValue(_)
DecimalValue(s) ==
    IF s = <<>> THEN 0
    ELSE 10 * DecimalValue(SubSeq(s, 1, Len(s) - 1)) + DigitValue(s[Len(s)])

\* Python's int(text): whitespace around is ignored, one sign is allowed, the
\* rest must be decimal digits; anything else is a ValueError.
int(text) ==
    LET s == strip(text, Whitespace)
        signed == s # <<>> /\ Head(s) \in {"+", "-"}
        body == IF signed THEN Tail(s) ELSE s
        isNumber == body # <<>> /\ \A i \in 1..Len(body) : body[i] \in Range(Digits)
    IN  IF ~isNumber THEN [raises |-> TRUE, value |-> 0]
        ELSE [raises |-> FALSE,
              value |-> IF signed /\ Head(s) = "-"
                        THEN 0 - DecimalValue(body)
                        ELSE DecimalValue(body)]

startswith(s, p) == Len(s) >= Len(p) /\ SubSeq(s, 1, Len(p)) = p

\* s.split("\n\n")[0]: the text before the first two consecutive newlines.
FirstParagraph(s) ==
    LET cuts == {i \in 1..(Len(s) - 1) : s[i] = "\n" /\ s[i + 1] = "\n"}
    IN  IF cuts = {} THEN s
        ELSE SubSeq(s, 1, (CHOOSE i \in cuts : \A j \in cuts : i <= j) - 1)

----------------------------------------------------------------------------
(* Configuration, lines 54-55.                                             *)

Quote == "\""

\* os.environ.get("HF_TOKEN", "").strip('"')
ResolveToken(env) == strip(env, {Quote})

\* os.environ.get("HF_ENDPOINT_URL", "").strip('"').rstrip("/")
ResolveEndpoint(env) == rstrip(strip(env, {Quote}), {"/"})

\* Values the two environment variables are set to (<<>>: unset or empty).
EnvTokens == {<<>>, <<Quote, Quote>>, <<"t">>, <<Quote, "t", Quote>>}
EnvEndpoints == {<<>>, <<"/">>, <<Quote, "u", "/", Quote>>, <<"u", "/">>}

\* The two "if not ..." tests of lines 644 and 649 both pass.
ConfigTokenOnly == HF_TOKEN # <<>>

ConfigPresent == HF_TOKEN # <<>> /\ HF_ENDPOINT_URL # <<>>

----------------------------------------------------------------------------
(* escape_for_type_keys, lines 140-154.                                    *)

special == {"{", "}", "+", "^", "%", "(", ")"}

\* text.replace("\r\n", "\n").replace("\r", "\n")
RECURSIVE NormalizeNewlines(_)
NormalizeNewlines(s) ==
    IF s = <<>> THEN <<>>
    ELSE IF Head(s) = "\r" /\ Len(s) >= 2 /\ s[2] = "\n"
         THEN <<"\n">> \o NormalizeNewlines(Tail(Tail(s)))
    ELSE IF Head(s) = "\r" THEN <<"\n">> \o NormalizeNewlines(Tail(s))
    ELSE <<Head(s)>> \o NormalizeNewlines(Tail(s))

ENTER == <<"{", "E", "N", "T", "E", "R", "}">>

\* Lines 145-153 with the parentheses missing from the table.
EscapeCharNoParens(ch) ==
    IF ch \in special \ {"(", ")"} THEN <<"{", ch, "}">>
    ELSE IF ch = "\n" THEN ENTER
    ELSE <<ch>>

EscapeChar(ch) ==
    IF ch \in special THEN <<"{", ch, "}">>
    ELSE IF ch = "\n" THEN ENTER
    ELSE <<ch>>

RECURSIVE EscapeAll(_)
EscapeAll(s) ==
    IF s = <<>> THEN <<>> ELSE EscapeChar(Head(s)) \o EscapeAll(Tail(s))

escape_for_type_keys(text) == EscapeAll(NormalizeNewlines(text))

----------------------------------------------------------------------------
(* The inference endpoint's answers, and analyze_image, lines 488-568.     *)

\* The instruction prompt of lines 508-510, shortened to two characters.
prompt == <<"D", ".">>

Keys == {"generated_text", "text"}

\* JSON objects with any subset of the two keys.
Objects ==
    {o \in UNION {[S -> {<<>>, <<"a">>, <<"b">>}] : S \in SUBSET Keys} :
        /\ "generated_text" \in DOMAIN o => o["generated_text"] # <<"b">>
        /\ "text" \in DOMAIN o => o["text"] # <<"a">>}

\* An answer that echoes the prompt and repeats itself after a blank line.
EchoText == prompt \o <<" ", "a", "(", "\n", "\n", "a", "(">>

JDict(o) == [shape |-> "dict", obj |-> o, elems |-> <<>>, s |-> <<>>]
JList(es) == [shape |-> "list", obj |-> <<>>, elems |-> es, s |-> <<>>]
\* A JSON string, number or null, with what Python's str() makes of it.
JScalar(sh, str) == [shape |-> sh, obj |-> <<>>, elems |-> <<>>, s |-> str]
\* A body that is no JSON at all: res.json() raises.
NotJson == [shape |-> "invalid", obj |-> <<>>, elems |-> <<>>, s |-> <<>>]

Scalars ==
    {JScalar("str", <<"a">>), JScalar("num", <<"7">>),
     JScalar("null", <<"N", "o", "n", "e">>)}

Bodies ==
    {JDict(o) : o \in Objects}
    \cup {JDict([k \in {"generated_text"} |-> EchoText])}
    \cup {JList(<<JDict(o)>>) : o \in Objects}
    \cup {JList(<<>>), JList(<<JScalar("str", <<"a">>)>>),
          JList(<<JDict([k \in {"generated_text"} |-> <<"a">>]),
                  JDict([k \in {"generated_text"} |-> <<"b">>])>>)}
    \cup Scalars
    \cup {NotJson}

\* What requests.post() comes back with: no answer at all (a
\* requests exception), or a status and a body.
Responses ==
    {[kind |-> "neterr", status |-> 0, body |-> NotJson]}
    \cup {[kind |-> "http", status |-> 500, body |-> b] :
             b \in {NotJson, JDict([k \in {"text"} |-> <<"b">>])}}
    \cup {[kind |-> "http", status |-> 300, body |-> b] :
             b \in {NotJson, JDict([k \in {"generated_text"} |-> <<"a">>])}}
    \cup {[kind |-> "http", status |-> 200, body |-> b] : b \in Bodies}

\* dict.get(key, "")
Get(o, key) == IF key \in DOMAIN o THEN o[key] ELSE <<>>

\* Python's "a or b" on strings.
Or(a, b) == IF a # <<>> THEN a ELSE b

\* Lines 534-539.  ok is FALSE where the Python raises (IndexError on an
\* empty list, AttributeError on an element that has no .get).
Decode(result) ==
    IF result.shape = "list" THEN
        IF result.elems = <<>> \/ result.elems[1].shape # "dict"
        THEN [ok |-> FALSE, content |-> <<>>]
        ELSE [ok |-> TRUE,
              content |-> Get(result.elems[1].obj, "generated_text")]
    ELSE IF result.shape = "dict" THEN
        [ok |-> TRUE,
         content |-> Or(Get(result.obj, "generated_text"), Get(result.obj, "text"))]
    ELSE [ok |-> TRUE, content |-> result.s]

\* Lines 551-553 alone: the echoed prompt is stripped, the repetition kept.
CleanupNoTruncate(content) ==
    IF startswith(content, prompt)
    THEN strip(SubSeq(content, Len(prompt) + 1, Len(content)), Whitespace)
    ELSE strip(content, Whitespace)

\* Lines 551-556: strip the echoed prompt, keep the first paragraph.
Cleanup(content) ==
    LET c1 == IF startswith(content, prompt)
              THEN strip(SubSeq(content, Len(prompt) + 1, Len(content)), Whitespace)
              ELSE content
    IN  strip(FirstParagraph(c1), Whitespace)

\* A Python value that is a string (isNone FALSE) or None.
Str(t) == [isNone |-> FALSE, text |-> t]
None == [isNone |-> TRUE, text |-> <<>>]

\* Python truthiness of such a value ("if findings:", "if not findings:").
Truthy(v) == ~v.isNone /\ v.text # <<>>

\* One write to a file: open(path, mode) and the text written.
Write(file, mode, text) == [file |-> file, mode |-> mode, text |-> text]

\* Lines 541-558 with the report written first and the cleaned text logged.
WritesReportFirst(content) ==
    <<Write("report.txt", "w", Cleanup(content)),
      Write("raw_output.txt", "a", Cleanup(content))>>

\* Lines 541-558: the decoded text is appended to raw_output.txt, then the
\* cleaned text replaces the content of report.txt.
Writes(content) ==
    <<Write("raw_output.txt", "a", content),
      Write("report.txt", "w", Cleanup(content))>>

\* res.raise_for_status(), line 528: HTTPError for a 4xx or 5xx status and
\* for no other (a 3xx answer that is not followed is returned as it is).
raise_for_status(status) == status \in 400..599

\* analyze_image(): what it returns and what it does, given whether the image
\* file exists, whether PIL opens it, and the endpoint's answer.
\*   opened:    lines 496-505 ran without raising (they are outside the try)
\*   posted:    the HTTP request of line 527 was sent
\*   raw:       the texts appended to raw_output.txt (none or one)
\*   report:    the texts written to report.txt (none or one)
analyze_image(exists, opens, resp) ==
    LET nothing == [raises |-> FALSE, posted |-> FALSE, ret |-> None,
                    raw |-> <<>>, report |-> <<>>, writes |-> <<>>]
        d == Decode(resp.body)
        w == Writes(d.content)
        TextsTo(file) ==
            LET to == SelectSeq(w, LAMBDA x : x.file = file)
            IN  [i \in DOMAIN to |-> to[i].text]
    IN  IF ~exists THEN nothing
        ELSE IF ~opens THEN [nothing EXCEPT !.raises = TRUE]
        ELSE IF resp.kind = "neterr" THEN [nothing EXCEPT !.posted = TRUE]
        ELSE IF raise_for_status(resp.status) THEN [nothing EXCEPT !.posted = TRUE]
        ELSE IF resp.body.shape = "invalid" THEN [nothing EXCEPT !.posted = TRUE]
        ELSE IF ~d.ok THEN [nothing EXCEPT !.posted = TRUE]
        ELSE [raises |-> FALSE, posted |-> TRUE,
              ret |-> Str(strip(Cleanup(d.content), Whitespace)),
              raw |-> TextsTo("raw_output.txt"),
              report |-> TextsTo("report.txt"),
              writes |-> w]

----------------------------------------------------------------------------
(* enter_report, lines 571-633.                                            *)

\* What the host application does to one enter_report() call.
EnterOutcomes == {"raise", "no_window", "no_box", "click_fails", "typed"}

\* "^{END}", line 625: the caret goes to the end of the box.
CtrlEnd == <<"^", "{", "E", "N", "D", "}">>

\* enter_report(findings): whether an exception leaves it, and the key strings
\* it sends to the EXAM box.
enter_report(f, outcome) ==
    IF outcome = "raise" THEN [raises |-> TRUE, keys |-> <<>>]
    ELSE IF ~Truthy(f) THEN [raises |-> FALSE, keys |-> <<>>]
    ELSE IF outcome = "typed"
    THEN [raises |-> FALSE,
          keys |-> <<CtrlEnd, ENTER \o escape_for_type_keys(f.text)>>]
    ELSE [raises |-> FALSE, keys |-> <<>>]

----------------------------------------------------------------------------
(* search_and_open and extract_image, as __main__ sees them.               *)

\* search_and_open(): the main window is not there (Application.connect
\* raises), the results grid never shows (returns False), or the first row
\* was double-clicked (returns True).
SearchOutcomes == {"raise", "no_grid", "opened"}

\* extract_image(): a UI call raises; no viewer window within the polls; the
\* clipboard stays empty; img.save raises; the image was saved.
ExtractOutcomes == {"raise", "no_viewer", "clipboard_empty", "save_fails", "saved"}

NoImage == [exists |-> FALSE, iter |-> 0]
\* The image file as written in iteration k (0: left by an earlier run).
Image(k) == [exists |-> TRUE, iter |-> k]

NoReport == [exists |-> FALSE, iter |-> 0, text |-> <<>>]
Report(k, t) == [exists |-> TRUE, iter |-> k, text |-> t]

\* An entry of workflow_log.txt.
Entry(tag, k, n) == [tag |-> tag, k |-> k, n |-> n]

\* An automation step: the call, the report it was made for (1-based), the
\* image file it found on disk when it began, and how it ended ("ok",
\* "fail": it returned failure, "raise": an exception left it).
Step(op, k, res) ==
    [op |-> op, k |-> k, img |-> imageFile, result |-> res]

NoResponse == [kind |-> "none", status |-> 0, body |-> NotJson]

\* No function is being looked at on its own: the whole script runs, and
\* nothing was read at the "Number of reports" prompt yet.
NoCall == [name |-> "__main__", num_input |-> <<>>]

----------------------------------------------------------------------------
(* The __main__ block, lines 636-726.                                      *)

Init ==
    /\ pc = "AwaitConfig"
    /\ \E t \in EnvTokens, u \in EnvEndpoints :
          /\ HF_TOKEN = ResolveToken(t)
          /\ HF_ENDPOINT_URL = ResolveEndpoint(u)
    /\ num_reports = 0
    /\ it = 0
    /\ report_num = 0
    /\ all_succeeded = FALSE
    /\ findings = None
    /\ imageFile \in {NoImage, Image(0)}
    /\ reportFile \in {NoReport, Report(0, <<"b">>)}
    /\ rawLog = <<>>
    /\ log = <<>>
    /\ console = <<>>
    /\ steps = <<>>
    /\ typed = <<>>
    /\ lastResponse = NoResponse
    /\ raised = FALSE
    /\ exitCode = 0
    /\ captures = <<>>
    /\ writes = <<>>
    /\ fn = NoCall

\* An exception propagates to the "except Exception" of line 718.
Raise ==
    /\ raised' = TRUE
    /\ pc' = "Handler"

\* Lines 638-654.
ValidateConfig ==
    /\ pc = "AwaitConfig"
    /\ log' = Append(log, Entry("WORKFLOW STARTED", 0, 0))
    /\ IF ConfigPresent
       THEN /\ pc' = "PromptDate"
            /\ UNCHANGED <<console, exitCode>>
       ELSE /\ pc' = "FatalConfig"
            /\ console' = Append(console, "Press Enter to exit...")
            /\ exitCode' = 1
    /\ UNCHANGED <<HF_TOKEN, HF_ENDPOINT_URL, num_reports, it, report_num,
                   all_succeeded, findings, imageFile, reportFile, rawLog,
                   steps, typed, lastResponse, raised>>
    /\ UNCHANGED <<captures, writes, fn>>

\* Lines 656-658.
PromptDate ==
    /\ pc = "PromptDate"
    /\ console' = Append(console, "Date: ")
    /\ log' = Append(log, Entry("Search date", 0, 0))
    /\ pc' = "PromptCount"
    /\ UNCHANGED <<HF_TOKEN, HF_ENDPOINT_URL, num_reports, it, report_num,
                   all_succeeded, findings, imageFile, reportFile, rawLog,
                   steps, typed, lastResponse, raised, exitCode>>
    /\ UNCHANGED <<captures, writes, fn>>

\* What is typed at the "Number of reports" prompt: the counts up to the
\* bound, a negative and a signed number, padded text, and text int() rejects.
CountInputs ==
    {DecimalText(n) : n \in 0..MaxReports}
    \cup {<<"-", "1">>, <<"+", "1">>, <<" ", "1", " ">>, <<"x">>, <<>>,
          <<"1", ".", "5">>}

\* Lines 667-673 without the "< 1" test.
ParseCountNoClamp(num_input) ==
    IF int(num_input).raises THEN 1 ELSE int(num_input).value

\* Lines 667-673.
ParseCount(num_input) ==
    LET n == int(num_input)
    IN  IF n.raises THEN 1 ELSE IF n.value < 1 THEN 1 ELSE n.value

\* Lines 660-674; input(...).strip() is kept in num_input.
PromptCount ==
    /\ pc = "PromptCount"
    /\ \E inp \in CountInputs :
          LET num_input == strip(inp, Whitespace)
          IN  /\ fn' = [name |-> "__main__", num_input |-> num_input]
              /\ num_reports' = ParseCount(num_input)
              /\ log' = Append(log, Entry("Reports to process", 0,
                                          ParseCount(num_input)))
    /\ console' = Append(console, "Number of reports: ")
    /\ pc' = "Searching"
    /\ UNCHANGED <<HF_TOKEN, HF_ENDPOINT_URL, it, report_num,
                   all_succeeded, findings, imageFile, reportFile, rawLog,
                   steps, typed, lastResponse, raised, exitCode>>
    /\ UNCHANGED <<captures, writes>>

\* Line 676: "if search_and_open(selected_date):" and what follows it.
AfterSearchIgnored(ok) == "Selected"

AfterSearch(ok) == IF ok THEN "Selected" ELSE "Aborted"

\* Lines 676-678: the call of search_and_open and the branch on its result.
Search ==
    /\ pc = "Searching"
    /\ log' = Append(log, Entry("STEP 1: Search & Open X-ray", 0, 0))
    /\ \E outcome \in SearchOutcomes :
          IF outcome = "raise"
          THEN /\ steps' = Append(steps, Step("search", 0, "raise"))
               /\ Raise
               /\ UNCHANGED <<all_succeeded, it>>
          ELSE /\ steps' = Append(steps, Step("search", 0,
                                 IF outcome = "opened" THEN "ok" ELSE "fail"))
               /\ pc' = AfterSearch(outcome = "opened")
               /\ all_succeeded' = (AfterSearch(outcome = "opened") = "Selected")
               /\ it' = 0
               /\ UNCHANGED raised
    /\ UNCHANGED <<HF_TOKEN, HF_ENDPOINT_URL, num_reports, report_num,
                   findings, imageFile, reportFile, rawLog, console,
                   typed, lastResponse, exitCode>>
    /\ UNCHANGED <<captures, writes, fn>>

\* Lines 678-685 with the image left in place.
LoopHeadKeepsImage ==
    /\ pc = "Selected"
    /\ IF it < num_reports
       THEN /\ report_num' = it
            /\ it' = it + 1
            /\ log' = Append(log, Entry("PROCESSING REPORT", it + 1, num_reports))
            /\ pc' = "Extracting"
            /\ UNCHANGED <<imageFile, raised>>
       ELSE /\ pc' = "Summary"
            /\ UNCHANGED <<report_num, it, log, imageFile, raised>>
    /\ UNCHANGED <<HF_TOKEN, HF_ENDPOINT_URL, num_reports, all_succeeded,
                   findings, reportFile, rawLog, console, steps, typed,
                   lastResponse, exitCode>>
    /\ UNCHANGED <<captures, writes, fn>>

\* Lines 678-685: the for statement takes the next index, or ends the loop;
\* the body logs the header and removes the image file if there is one
\* (os.remove may raise, e.g. on a file another process holds open).
LoopHead ==
    /\ pc = "Selected"
    /\ IF it < num_reports
       THEN /\ report_num' = it
            /\ it' = it + 1
            /\ log' = Append(log, Entry("PROCESSING REPORT", it + 1, num_reports))
            /\ \E removes \in BOOLEAN :
                  IF imageFile.exists /\ ~removes
                  THEN /\ Raise
                       /\ UNCHANGED imageFile
                  ELSE /\ imageFile' = NoImage
                       /\ pc' = "Extracting"
                       /\ UNCHANGED raised
       ELSE /\ pc' = "Summary"
            /\ UNCHANGED <<report_num, it, log, imageFile, raised>>
    /\ UNCHANGED <<HF_TOKEN, HF_ENDPOINT_URL, num_reports, all_succeeded,
                   findings, reportFile, rawLog, console, steps, typed,
                   lastResponse, exitCode>>
    /\ UNCHANGED <<captures, writes, fn>>

\* extract_image(), lines 409-485: an exception leaves it, or it returns ret
\* after appending its entries to the log and leaving the image file as file.
extract_image(outcome, partial) ==
    LET step2 == Entry("STEP 2: Extract Image", 0, 0)
        found == Entry("Found PACS viewer window", 0, 0)
    IN  CASE outcome = "raise" ->
               [raises |-> TRUE, ret |-> FALSE, logs |-> <<step2>>,
                file |-> imageFile]
          [] outcome = "no_viewer" ->
               [raises |-> FALSE, ret |-> FALSE,
                logs |-> <<step2, Entry("Error: PACS viewer not found.", 0, 0)>>,
                file |-> imageFile]
          [] outcome = "clipboard_empty" ->
               [raises |-> FALSE, ret |-> FALSE, logs |-> <<step2, found>>,
                file |-> imageFile]
          [] outcome = "save_fails" ->
               [raises |-> FALSE, ret |-> FALSE, logs |-> <<step2, found>>,
                file |-> IF partial THEN Image(report_num + 1) ELSE imageFile]
          [] OTHER ->
               [raises |-> FALSE, ret |-> TRUE, logs |-> <<step2, found>>,
                file |-> Image(report_num + 1)]

\* Lines 687 and 706-709: "if extract_image():" and its else branch.
AfterExtract(ok) ==
    IF ok
    THEN [pc |-> "Analyzing", all |-> all_succeeded, logs |-> <<>>]
    ELSE [pc |-> "Summary", all |-> FALSE,
          logs |-> <<Entry("[FAIL] Failed to extract image", report_num + 1, 0)>>]

\* Lines 687-709: the call of extract_image and the branch on its result.
\* The window extract_image finds is any visible viewer window: the one of
\* this report, or (stale) the one the previous report left on screen.
Extract ==
    /\ pc = "Extracting"
    /\ \E outcome \in ExtractOutcomes, partial \in BOOLEAN, stale \in BOOLEAN :
          LET r == extract_image(outcome, partial)
              b == AfterExtract(r.ret)
              k == report_num + 1
              study == IF stale /\ captures # <<>>
                       THEN captures[Len(captures)].study
                       ELSE k
          IN  /\ imageFile' = r.file
              /\ captures' = IF r.ret
                             THEN Append(captures, [k |-> k, study |-> study])
                             ELSE captures
              /\ IF r.raises
                 THEN /\ steps' = Append(steps, Step("extract", report_num + 1, "raise"))
                      /\ log' = log \o r.logs
                      /\ Raise
                      /\ UNCHANGED all_succeeded
                 ELSE /\ steps' = Append(steps, Step("extract", report_num + 1,
                                        IF r.ret THEN "ok" ELSE "fail"))
                      /\ log' = log \o r.logs \o b.logs
                      /\ pc' = b.pc
                      /\ all_succeeded' = b.all
                      /\ UNCHANGED raised
    /\ UNCHANGED <<HF_TOKEN, HF_ENDPOINT_URL, num_reports, it, report_num,
                   findings, reportFile, rawLog, console, typed,
                   lastResponse, exitCode, writes, fn>>

\* Lines 689 and 702-705 with "continue" in place of "break".
AfterAnalyzeContinues(f) ==
    IF Truthy(f)
    THEN [pc |-> "Entering", all |-> all_succeeded, logs |-> <<>>]
    ELSE [pc |-> "Selected", all |-> FALSE,
          logs |-> <<Entry("[FAIL] Failed to analyze image", report_num + 1, 0)>>]

\* Lines 689 and 702-705: "if findings:" and its else branch.
AfterAnalyze(f) ==
    IF Truthy(f)
    THEN [pc |-> "Entering", all |-> all_succeeded, logs |-> <<>>]
    ELSE [pc |-> "Summary", all |-> FALSE,
          logs |-> <<Entry("[FAIL] Failed to analyze image", report_num + 1, 0)>>]

\* Line 688: findings = analyze_image(), and the branch on it.
Analyze ==
    /\ pc = "Analyzing"
    /\ \E opens \in BOOLEAN, resp \in Responses :
          LET r == analyze_image(imageFile.exists, opens, resp)
              b == AfterAnalyze(r.ret)
              k == report_num + 1
              http == IF r.posted THEN <<Step("http", k, "ok")>> ELSE <<>>
          IN  /\ rawLog' = rawLog \o r.raw
              /\ writes' = writes \o r.writes
              /\ reportFile' = IF r.report = <<>> THEN reportFile
                               ELSE Report(k, r.report[1])
              /\ lastResponse' = IF r.posted THEN resp ELSE NoResponse
              /\ IF r.raises
                 THEN /\ steps' = Append(steps, Step("analyze", k, "raise"))
                      /\ log' = Append(log, Entry("STEP 3: AI Analysis", 0, 0))
                      /\ Raise
                      /\ UNCHANGED <<findings, all_succeeded>>
                 ELSE /\ steps' = Append(steps, Step("analyze", k,
                                    IF Truthy(r.ret) THEN "ok" ELSE "fail")) \o http
                      /\ log' = Append(log, Entry("STEP 3: AI Analysis", 0, 0)) \o b.logs
                      /\ findings' = r.ret
                      /\ pc' = b.pc
                      /\ all_succeeded' = b.all
                      /\ UNCHANGED raised
    /\ UNCHANGED <<HF_TOKEN, HF_ENDPOINT_URL, num_reports, it, report_num,
                   imageFile, console, typed, exitCode>>
    /\ UNCHANGED <<captures, fn>>

\* Line 690: enter_report(findings); its return value is not looked at.
Enter ==
    /\ pc = "Entering"
    /\ log' = Append(log, Entry("STEP 4: Enter Report", 0, 0))
    /\ \E outcome \in EnterOutcomes :
          LET r == enter_report(findings, outcome)
              k == report_num + 1
          IN  IF r.raises
              THEN /\ steps' = Append(steps, Step("enter", k, "raise"))
                   /\ Raise
                   /\ UNCHANGED typed
              ELSE /\ steps' = Append(steps, Step("enter", k,
                                     IF r.keys # <<>> THEN "ok" ELSE "fail"))
                   /\ typed' = IF r.keys = <<>> THEN typed
                               ELSE Append(typed, [k |-> k, keys |-> r.keys])
                   /\ pc' = "Entered"
                   /\ UNCHANGED raised
    /\ UNCHANGED <<HF_TOKEN, HF_ENDPOINT_URL, num_reports, it, report_num,
                   all_succeeded, findings, imageFile, reportFile, rawLog,
                   console, lastResponse, exitCode>>
    /\ UNCHANGED <<captures, writes, fn>>

\* Line 694 with the bound off by one.
NotLastReportOffByOne == report_num < num_reports

\* Line 694: "if report_num < num_reports - 1:".
NotLastReport == report_num < num_reports - 1

\* Lines 691-701: the completion entry, then F4 unless this was the last
\* report (send_keys may raise).
ReportCompleted ==
    /\ pc = "Entered"
    /\ log' = Append(log, Entry("[OK] Report completed!", report_num + 1, 0))
    /\ IF NotLastReport
       THEN \E sent \in BOOLEAN :
               /\ steps' = Append(steps, Step("F4", report_num + 1,
                                  IF sent THEN "ok" ELSE "raise"))
               /\ IF sent THEN pc' = "Selected" /\ UNCHANGED raised ELSE Raise
       ELSE /\ pc' = "Selected"
            /\ UNCHANGED <<steps, raised>>
    /\ UNCHANGED <<HF_TOKEN, HF_ENDPOINT_URL, num_reports, it, report_num,
                   all_succeeded, findings, imageFile, reportFile, rawLog,
                   console, typed, lastResponse, exitCode>>
    /\ UNCHANGED <<captures, writes, fn>>

\* Lines 711-716 with the failing report counted as completed.
SummaryCountsFailed ==
    /\ pc = "Summary"
    /\ log' = Append(log,
                 IF all_succeeded
                 THEN Entry("[OK] ALL REPORTS COMPLETED SUCCESSFULLY!", report_num + 1, 0)
                 ELSE Entry("[FAIL] WORKFLOW FINISHED WITH ERRORS", report_num + 1, num_reports))
    /\ pc' = IF all_succeeded THEN "Completed" ELSE "Aborted"
    /\ UNCHANGED <<HF_TOKEN, HF_ENDPOINT_URL, num_reports, it, report_num,
                   all_succeeded, findings, imageFile, reportFile, rawLog,
                   console, steps, typed, lastResponse, raised, exitCode>>
    /\ UNCHANGED <<captures, writes, fn>>

\* Lines 711-716: the summary, after which the script runs off its end.
Summary ==
    /\ pc = "Summary"
    /\ log' = Append(log,
                 IF all_succeeded
                 THEN Entry("[OK] ALL REPORTS COMPLETED SUCCESSFULLY!", report_num + 1, 0)
                 ELSE Entry("[FAIL] WORKFLOW FINISHED WITH ERRORS", report_num, num_reports))
    /\ pc' = IF all_succeeded THEN "Completed" ELSE "Aborted"
    /\ UNCHANGED <<HF_TOKEN, HF_ENDPOINT_URL, num_reports, it, report_num,
                   all_succeeded, findings, imageFile, reportFile, rawLog,
                   console, steps, typed, lastResponse, raised, exitCode>>
    /\ UNCHANGED <<captures, writes, fn>>

\* Lines 718-721 alone: the error is logged and the script ends at once.
HandlerNoPause ==
    /\ pc = "Handler"
    /\ log' = Append(log, Entry("ERROR", 0, 0))
    /\ pc' = "Aborted"
    /\ UNCHANGED <<HF_TOKEN, HF_ENDPOINT_URL, num_reports, it, report_num,
                   all_succeeded, findings, imageFile, reportFile, rawLog,
                   console, steps, typed, lastResponse, raised, exitCode>>
    /\ UNCHANGED <<captures, writes, fn>>

\* Lines 718-726: the handler logs the error and waits for Enter.
Handler ==
    /\ pc = "Handler"
    /\ log' = Append(log, Entry("ERROR", 0, 0))
    /\ console' = Append(console, "Press Enter to exit...")
    /\ pc' = "Aborted"
    /\ UNCHANGED <<HF_TOKEN, HF_ENDPOINT_URL, num_reports, it, report_num,
                   all_succeeded, findings, imageFile, reportFile, rawLog,
                   steps, typed, lastResponse, raised, exitCode>>
    /\ UNCHANGED <<captures, writes, fn>>

Next ==
    \/ ValidateConfig
    \/ PromptDate
    \/ PromptCount
    \/ Search
    \/ LoopHead
    \/ Extract
    \/ Analyze
    \/ Enter
    \/ ReportCompleted
    \/ Summary
    \/ Handler

Spec == Init /\ [][Next]_vars

\* The script has ended.
Terminated == pc \in {"FatalConfig", "Completed", "Aborted"}

----------------------------------------------------------------------------
(* Properties of the workflow.                                             *)

CompletedTag == "[OK] Report completed!"

\* Report k's findings were injected into the EXAM box.
Injected(k) == \E j \in DOMAIN typed : typed[j].k = k

\* The steps __main__ calls, in order, as <<call, report>> pairs.
MainOps ==
    LET main == SelectSeq(steps, LAMBDA e : e.op # "http")
    IN  [i \in 1..Len(main) |-> <<main[i].op, main[i].k>>]

\* An extraction returned failure, or an analysis returned no findings.
AStepFailed ==
    \E i \in DOMAIN steps :
        steps[i].op \in {"extract", "analyze"} /\ steps[i].result = "fail"

\* C1: once the extraction or the analysis of a report has failed, no further
\* automation step of any kind is executed (the step history stays as it
\* is), the loop is left for the summary, and the success flag is false.
C1_AbortOnFirstFailure ==
    [][ /\ AStepFailed => steps' = steps /\ typed' = typed
        /\ AStepFailed' => ~all_succeeded' /\ pc' \in {"Summary", "Aborted"}
      ]_vars

\* C1's case: the analysis of report 1 of 2 failed and the run has ended
\* without touching report 2.
C1_Witness ==
    /\ pc = "Aborted"
    /\ num_reports = 2
    /\ steps # <<>>
    /\ steps[Len(steps)].op = "http"
    /\ steps[Len(steps) - 1] = [steps[Len(steps) - 1] EXCEPT
                                   !.op = "analyze", !.k = 1, !.result = "fail"]

\* C2 (as claimed): a report is logged as completed, and F4 is sent after it,
\* only if its findings were injected into the EXAM box.
C2_NoSilentSkip ==
    /\ \A i \in DOMAIN log : log[i].tag = CompletedTag => Injected(log[i].k)
    /\ \A i \in DOMAIN steps : steps[i].op = "F4" => Injected(steps[i].k)

\* C3: every extraction begins with no image file on disk, and every analysis
\* reads the image file written by the extraction of its own iteration.
C3_NoStaleImage ==
    \A i \in DOMAIN steps :
        /\ steps[i].op = "extract" => ~steps[i].img.exists
        /\ steps[i].op = "analyze" => steps[i].img = Image(steps[i].k)

\* C3's case: the analysis of the second report has run.
C3_Witness ==
    \E i \in DOMAIN steps : steps[i].op = "analyze" /\ steps[i].k = 2

\* C4 (as claimed): an image file and a report file written in this run, when
\* both are on disk, are of the same report iteration.
C4_OneReportOnDisk ==
    (/\ imageFile.exists /\ imageFile.iter >= 1
     /\ reportFile.exists /\ reportFile.iter >= 1)
    => imageFile.iter = reportFile.iter

\* C5: with the token or the endpoint URL empty the script only reaches the
\* fatal exit (status 1): no automation step, nothing typed, and no prompt
\* other than the one to press Enter and exit.
C5_ConfigGate ==
    (HF_TOKEN = <<>> \/ HF_ENDPOINT_URL = <<>>) =>
        /\ pc \in {"AwaitConfig", "FatalConfig"}
        /\ steps = <<>>
        /\ typed = <<>>
        /\ \A i \in DOMAIN console : console[i] = "Press Enter to exit..."
        /\ pc = "FatalConfig" => exitCode = 1 /\ console # <<>>

\* C5's case: the token is set, the endpoint URL resolves to empty, and the
\* script has exited.
C5_Witness ==
    pc = "FatalConfig" /\ HF_TOKEN # <<>> /\ HF_ENDPOINT_URL = <<>>

RECURSIVE ExpectedOps(_, _)
ExpectedOps(k, n) ==
    IF k > n THEN <<>>
    ELSE <<<<"extract", k>>, <<"analyze", k>>, <<"enter", k>>>>
         \o (IF k < n THEN <<<<"F4", k>>>> ELSE <<>>)
         \o ExpectedOps(k + 1, n)

\* C6: a finished run in which no step failed or raised has run search, then
\* extract(k), analyze(k), enter(k) for k = 1..N in that order with F4 exactly
\* between consecutive reports, has logged each report's completion once, and
\* has ended Completed.
C6_HappyPath ==
    (/\ Terminated /\ ~raised
     /\ steps # <<>>
     /\ \A i \in DOMAIN steps : steps[i].result = "ok")
    => /\ pc = "Completed"
       /\ num_reports >= 1
       /\ MainOps = <<<<"search", 0>>>> \o ExpectedOps(1, num_reports)
       /\ \A k \in 1..num_reports :
             Cardinality({i \in DOMAIN log :
                             log[i].tag = CompletedTag /\ log[i].k = k}) = 1

\* C6's case: a run of two reports ended Completed with every step succeeding.
C6_Witness ==
    /\ pc = "Completed"
    /\ num_reports = 2
    /\ \A i \in DOMAIN steps : steps[i].result = "ok"

\* The search-and-select step returned failure.
SearchFailed ==
    steps # <<>> /\ steps[1].op = "search" /\ steps[1].result = "fail"

\* C7: after a failed search the run is Aborted with the search as its only
\* step (no report iteration, nothing typed); and any other step has the
\* successful search before it.
C7_SearchFailureAborts ==
    /\ SearchFailed =>
          /\ pc = "Aborted"
          /\ Len(steps) = 1
          /\ typed = <<>>
          /\ \A i \in DOMAIN log : log[i].tag # "PROCESSING REPORT"
    /\ \A i \in DOMAIN steps :
          steps[i].op # "search" =>
              steps[1].op = "search" /\ steps[1].result = "ok"

\* C7's case: the search failed and the run has ended.
C7_Witness == SearchFailed /\ pc = "Aborted"

\* C8: an exception that leaves a step reaches the handler; from then on no
\* automation step is executed; and when the run ends after it, the log holds
\* an error entry and the last thing the console did was wait for Enter.
C8_ExceptionAborts ==
    [][ /\ (\E i \in DOMAIN steps' : steps'[i].result = "raise") => raised'
        /\ raised => /\ steps' = steps
                     /\ typed' = typed
                     /\ pc' \in {"Handler", "Aborted"}
        /\ (raised' /\ pc' = "Aborted") =>
              /\ \E i \in DOMAIN log' : log'[i].tag = "ERROR"
              /\ console' # <<>>
              /\ console'[Len(console')] = "Press Enter to exit..."
      ]_vars

\* C8's case: a step raised and the run has ended through the handler.
C8_Witness ==
    /\ pc = "Aborted"
    /\ raised
    /\ steps # <<>>
    /\ steps[Len(steps)].result = "raise"

\* The remote call ended in a network error, a non-2xx response, or a body
\* that is neither a list of objects nor an object with a generated-text key.
AnalysisFailure(resp) ==
    \/ resp.kind = "neterr"
    \/ resp.status \notin 200..299
    \/ ~ \/ /\ resp.body.shape = "list"
            /\ \A i \in DOMAIN resp.body.elems : resp.body.elems[i].shape = "dict"
         \/ /\ resp.body.shape = "dict"
            /\ DOMAIN resp.body.obj # {}

\* C9 (as claimed): when the remote call ended in such a failure, the
\* analysis returned a null or empty result.
C9_FailureGivesNoFindings ==
    (lastResponse.kind # "none" /\ AnalysisFailure(lastResponse))
    => ~Truthy(findings)

\* C10 (as claimed): for a list response (first element) and for a
\* single-object response alike, the decoded text, as appended to the raw
\* log, is "generated_text", or "text" when that is absent or empty.
C10_BothShapesBothKeys ==
    LET b == lastResponse.body
        o == IF b.shape = "list" THEN b.elems[1].obj ELSE b.obj
    IN  (/\ lastResponse.kind = "http"
         /\ lastResponse.status = 200
         /\ \/ b.shape = "dict"
            \/ b.shape = "list" /\ b.elems # <<>> /\ b.elems[1].shape = "dict")
        => /\ rawLog # <<>>
           /\ rawLog[Len(rawLog)] = Or(Get(o, "generated_text"), Get(o, "text"))

----------------------------------------------------------------------------
(* analyze_image on its own: one call, on every short generated text.      *)

\* Longest generated text tried.
MaxText == 6

\* All texts of at most n characters over an alphabet.
TextsOver(alphabet, n) == UNION {[1..k -> alphabet] : k \in 0..n}

\* The characters of generated texts: those of the prompt, a letter, a
\* blank and a line break.
GeneratedChars == {"D", ".", "a", " ", "\n"}

\* The endpoint answers 200 with {"generated_text": t}.
Generated(t) ==
    [kind |-> "http", status |-> 200,
     body |-> JDict([k \in {"generated_text"} |-> t])]

\* The script is about to call analyze_image() for report 1 (lines 687-688):
\* extract_image() has just saved the image.
InitAnalysis ==
    /\ pc = "Analyzing"
    /\ HF_TOKEN = <<"t">>
    /\ HF_ENDPOINT_URL = <<"u">>
    /\ num_reports = 1
    /\ it = 1
    /\ report_num = 0
    /\ all_succeeded = TRUE
    /\ findings = None
    /\ imageFile = Image(1)
    /\ reportFile = Report(0, <<"b">>)
    /\ rawLog = <<>>
    /\ log = <<>>
    /\ console = <<"Date: ", "Number of reports: ">>
    /\ steps = <<>>
    /\ typed = <<>>
    /\ lastResponse = NoResponse
    /\ raised = FALSE
    /\ exitCode = 0
    /\ captures = <<[k |-> 1, study |-> 1]>>
    /\ writes = <<>>
    /\ \E t \in TextsOver(GeneratedChars, MaxText) :
          fn = [name |-> "analyze_image", content |-> t]

\* Line 688 for the answer Generated(fn.content): the call and the branch.
AnalyzeGenerated ==
    /\ fn.name = "analyze_image"
    /\ pc = "Analyzing"
    /\ LET r == analyze_image(imageFile.exists, TRUE, Generated(fn.content))
           b == AfterAnalyze(r.ret)
       IN  /\ rawLog' = rawLog \o r.raw
           /\ writes' = writes \o r.writes
           /\ reportFile' = IF r.report = <<>> THEN reportFile
                            ELSE Report(report_num + 1, r.report[1])
           /\ lastResponse' = Generated(fn.content)
           /\ findings' = r.ret
           /\ pc' = b.pc
           /\ all_succeeded' = b.all
    /\ UNCHANGED <<HF_TOKEN, HF_ENDPOINT_URL, num_reports, it, report_num,
                   imageFile, log, console, steps, typed, raised, exitCode,
                   captures, fn>>

SpecAnalysis == InitAnalysis /\ [][AnalyzeGenerated]_vars

\* A blank-line paragraph boundary: two consecutive line breaks.
HasBoundary(t) == \E i \in 1..(Len(t) - 1) : t[i] = "\n" /\ t[i + 1] = "\n"

\* The prompt, "Findings: normal." (here "a"), a blank line, and the same again.
RepeatedAnswer == prompt \o <<"a", "\n", "\n", "a">>

\* The text with the prompt removed from its start, if it starts with it.
WithoutPrompt(t) ==
    IF startswith(t, prompt) THEN SubSeq(t, Len(prompt) + 1, Len(t)) ELSE t

\* C11 (as claimed): the returned text is the generated text with the prompt
\* removed from its start, cut before the first blank-line boundary, and
\* trimmed; it holds no boundary; the repeated answer gives the answer once;
\* the report file holds exactly the returned text.
C11_CleanupAsClaimed ==
    (fn.name = "analyze_image" /\ pc # "Analyzing") =>
        /\ findings = Str(strip(FirstParagraph(WithoutPrompt(fn.content)), Whitespace))
        /\ ~HasBoundary(findings.text)
        /\ fn.content = RepeatedAnswer => findings.text = <<"a">>
        /\ reportFile = Report(1, findings.text)

\* C11 (amended): as claimed, except that what remains after the prompt is
\* trimmed before it is cut at the first blank-line boundary (so blank lines
\* between the echoed prompt and the answer do not empty the result).
C11_Cleanup ==
    (fn.name = "analyze_image" /\ pc # "Analyzing") =>
        LET rest == IF startswith(fn.content, prompt)
                    THEN strip(WithoutPrompt(fn.content), Whitespace)
                    ELSE fn.content
        IN  /\ findings = Str(strip(FirstParagraph(rest), Whitespace))
            /\ ~HasBoundary(findings.text)
            /\ fn.content = RepeatedAnswer => findings.text = <<"a">>
            /\ reportFile = Report(1, findings.text)

\* C11's case: the repeated answer was cleaned up to the answer, once.
C11_Witness ==
    /\ fn.name = "analyze_image"
    /\ pc = "Entering"
    /\ fn.content = RepeatedAnswer
    /\ findings.text = <<"a">>
    /\ reportFile.text = <<"a">>

----------------------------------------------------------------------------
(* Functions looked at on their own: one call on each input.               *)

\* Everything of the script at rest, while one function is looked at.
AtRest ==
    /\ pc = "AwaitConfig"
    /\ HF_TOKEN = <<"t">>
    /\ HF_ENDPOINT_URL = <<"u">>
    /\ num_reports = 0
    /\ it = 0
    /\ report_num = 0
    /\ all_succeeded = FALSE
    /\ findings = None
    /\ imageFile = NoImage
    /\ reportFile = NoReport
    /\ rawLog = <<>>
    /\ log = <<>>
    /\ console = <<>>
    /\ steps = <<>>
    /\ typed = <<>>
    /\ lastResponse = NoResponse
    /\ raised = FALSE
    /\ exitCode = 0
    /\ captures = <<>>
    /\ writes = <<>>

script == <<pc, HF_TOKEN, HF_ENDPOINT_URL, num_reports, it, report_num,
            all_succeeded, findings, imageFile, reportFile, rawLog, log,
            console, steps, typed, lastResponse, raised, exitCode, captures,
            writes>>

\* Longest text given to escape_for_type_keys.
MaxEscape == 3

\* The special characters, the two line-break characters, and a letter.
EscapeChars == special \cup {"\n", "\r", "a"}

InitEscape ==
    /\ AtRest
    /\ \E t \in TextsOver(EscapeChars, MaxEscape) :
          fn = [name |-> "escape_for_type_keys", text |-> t,
                returned |-> FALSE, result |-> <<>>]

\* One call of escape_for_type_keys(fn.text), lines 140-154.
EscapeCall ==
    /\ fn.name = "escape_for_type_keys"
    /\ ~fn.returned
    /\ fn' = [fn EXCEPT !.returned = TRUE,
                        !.result = escape_for_type_keys(fn.text)]
    /\ UNCHANGED script

SpecEscape == InitEscape /\ [][EscapeCall]_vars

\* The key string read as type_keys reads it: a "{" opens a token that runs
\* to its closing "}" ("{{}" and "{}}" are the two braces), any other
\* character is a token of its own.
RECURSIVE KeyTokens(_)
KeyTokens(s) ==
    IF s = <<>> THEN <<>>
    ELSE IF Head(s) # "{" THEN <<<<Head(s)>>>> \o KeyTokens(Tail(s))
    ELSE IF Len(s) >= 3 /\ s[3] = "}"
         THEN <<SubSeq(s, 1, 3)>> \o KeyTokens(SubSeq(s, 4, Len(s)))
    ELSE LET closes == {j \in 1..Len(s) : s[j] = "}"}
         IN  IF closes = {} THEN <<s>>
             ELSE LET j == CHOOSE x \in closes : \A y \in closes : x <= y
                  IN  <<SubSeq(s, 1, j)>> \o KeyTokens(SubSeq(s, j + 1, Len(s)))

\* The character a token types.
KeyOf(tok) ==
    IF tok = ENTER THEN "\n"
    ELSE IF Len(tok) = 3 THEN tok[2]
    ELSE tok[1]

\* A token is a brace-wrapped special character, {ENTER}, or one character
\* that is neither special nor a line break.
GoodToken(tok) ==
    \/ tok = ENTER
    \/ Len(tok) = 3 /\ tok[1] = "{" /\ tok[3] = "}" /\ tok[2] \in special
    \/ Len(tok) = 1 /\ tok[1] \notin special \cup {"\n", "\r"}

\* The line breaks of a text: every \r, and every \n not right after a \r.
LineBreaks(t) ==
    Cardinality({i \in 1..Len(t) :
                    \/ t[i] = "\r"
                    \/ t[i] = "\n" /\ (i = 1 \/ t[i - 1] # "\r")})

\* C12: the output of escape_for_type_keys reads as a sequence of tokens,
\* each a brace-wrapped special character, {ENTER} or an ordinary character
\* (so no special character is left unescaped); there is one {ENTER} per line
\* break of the input (\r\n counted once); and the characters the tokens type
\* are, in order, the input with its line breaks normalized to \n.
C12_Escaping ==
    (fn.name = "escape_for_type_keys" /\ fn.returned) =>
        LET toks == KeyTokens(fn.result)
            norm == NormalizeNewlines(fn.text)
        IN  /\ \A i \in DOMAIN toks : GoodToken(toks[i])
            /\ Cardinality({i \in DOMAIN toks : toks[i] = ENTER}) = LineBreaks(fn.text)
            /\ Len(toks) = Len(norm)
            /\ \A i \in DOMAIN toks :
                  /\ KeyOf(toks[i]) = norm[i]
                  /\ norm[i] \in special => toks[i] = <<"{", norm[i], "}">>
                  /\ norm[i] \notin special \cup {"\n"} => toks[i] = <<norm[i]>>

\* C12's case: a closing brace followed by a \r\n pair was escaped.
C12_Witness ==
    /\ fn.name = "escape_for_type_keys"
    /\ fn.returned
    /\ fn.text = <<"}", "\r", "\n">>
    /\ fn.result = <<"{", "}", "}">> \o ENTER

----------------------------------------------------------------------------
(* search_and_open on its own, lines 175-406: the date pickers, the search *)
(* click, the confirmation dialog and the results grid.                    *)

\* Most date-picker controls the main window holds.
MaxPickers == 2

\* range(3), line 296; range(10), line 364; range(20), line 386.
DateAttempts == 3
DialogPolls == 10
GridPolls == 20

Date(y, m, d) == [year |-> y, month |-> m, day |-> d]

\* f"{now.year}/{now.month}/{now.day}", line 332; also what a control
\* showing that date returns from window_text() (the RIS shows 2/1, not 02/01).
DateText(date) ==
    DecimalText(date.year) \o <<"/">> \o DecimalText(date.month)
        \o <<"/">> \o DecimalText(date.day)

\* The search dates tried, and the dates a control may show after an attempt
\* (keystrokes can be lost or land in the wrong segment).
SearchDates == {Date(2024, 1, 1), Date(2024, 11, 15)}
ShownDates ==
    SearchDates \cup {Date(2024, 1, 15), Date(2024, 11, 1), Date(2023, 12, 31)}

\* Python's "sub in s".
Contains(s, sub) ==
    \E i \in 1..(Len(s) - Len(sub) + 1) : SubSeq(s, i, i + Len(sub) - 1) = sub

\* Line 333: "if expected_date in new_date or new_date == expected_date".
DateMatches(expected_date, new_date) ==
    Contains(new_date, expected_date) \/ new_date = expected_date

\* Lines 333-341 with the break left out: a verified control is set again.
AfterAttemptNoBreak(matched, made) ==
    IF made < DateAttempts THEN "retry" ELSE IF matched THEN "next" ELSE "warn"

\* Lines 333-341: break on a match, retry while attempts are left, else the
\* for-else warning.
AfterAttempt(matched, made) ==
    IF matched THEN "next"
    ELSE IF made < DateAttempts THEN "retry"
    ELSE "warn"

\* Line 395 with the test left out.
GridMissingNever(assigned, exists) == FALSE

\* Line 395: "if not grid or not grid.exists()".
GridMissing(assigned, exists) == ~assigned \/ ~exists

InitSearch ==
    /\ AtRest
    /\ \E now \in SearchDates, n \in 0..MaxPickers :
          fn = [name |-> "search_and_open",
                at |-> "filters",
                now |-> now,
                shown |-> [i \in 1..n |-> Date(2023, 12, 31)],
                i |-> 1,
                made |-> [i \in 1..n |-> 0],
                verified |-> [i \in 1..n |-> FALSE],
                warned |-> [i \in 1..n |-> FALSE],
                searchClicks |-> 0,
                dialogPolls |-> 0,
                dismissed |-> FALSE,
                gridPolls |-> 0,
                grid |-> FALSE,
                gridSeen |-> FALSE,
                doubleClicks |-> 0,
                ret |-> FALSE]

InSearch(at) == fn.name = "search_and_open" /\ fn.at = at

\* Lines 177-289: connect to the main window (raises if there is none), find
\* the controls, set the combo boxes.
SearchFilters ==
    /\ InSearch("filters")
    /\ \E connected \in BOOLEAN :
          fn' = [fn EXCEPT !.at = IF connected THEN "dates" ELSE "raised"]
    /\ UNCHANGED script

\* Lines 296-341, one pass of the attempt loop on control fn.i: the keys are
\* sent, the control is read back (window_text() raises if the control is
\* gone) and compared.
SetDateAttempt ==
    /\ InSearch("dates")
    /\ fn.i <= Len(fn.shown)
    /\ \E d \in ShownDates, readable \in BOOLEAN :
          LET made == fn.made[fn.i] + 1
              matched == DateMatches(DateText(fn.now), DateText(d))
              then == AfterAttempt(matched, made)
          IN  IF readable
              THEN fn' = [fn EXCEPT !.shown[fn.i] = d,
                                    !.made[fn.i] = made,
                                    !.verified[fn.i] = matched,
                                    !.warned[fn.i] = (then = "warn"),
                                    !.i = IF then = "retry" THEN fn.i ELSE fn.i + 1]
              ELSE fn' = [fn EXCEPT !.made[fn.i] = made, !.at = "raised"]
    /\ UNCHANGED script

\* Lines 344-360: the loop over the controls is over; the search is clicked
\* (by control or by coordinates).
SubmitSearch ==
    /\ InSearch("dates")
    /\ fn.i > Len(fn.shown)
    /\ fn' = [fn EXCEPT !.searchClicks = fn.searchClicks + 1, !.at = "dialog"]
    /\ UNCHANGED script

\* Lines 364-373, one pass: the dialog is there and is answered Alt+Y (break),
\* or it is not there, or a call raises ("except: pass").
PollDialog ==
    /\ InSearch("dialog")
    /\ \E seen \in {"dismissed", "absent", "error"} :
          LET polls == fn.dialogPolls + 1
          IN  fn' = [fn EXCEPT !.dialogPolls = polls,
                               !.dismissed = (seen = "dismissed"),
                               !.at = IF seen = "dismissed" \/ polls = DialogPolls
                                      THEN "grid" ELSE "dialog"]
    /\ UNCHANGED script

\* Lines 386-393, one pass: the grid is looked up and asked whether it exists
\* (break if so); a raising lookup leaves grid as it was.
PollGrid ==
    /\ InSearch("grid")
    /\ \E seen \in {"present", "absent", "error"} :
          LET polls == fn.gridPolls + 1
          IN  fn' = [fn EXCEPT !.gridPolls = polls,
                               !.grid = (fn.grid \/ seen # "error"),
                               !.gridSeen = (fn.gridSeen \/ seen = "present"),
                               !.at = IF seen = "present" \/ polls = GridPolls
                                      THEN "check" ELSE "grid"]
    /\ UNCHANGED script

\* Lines 395-406: the grid is asked once more; without it the function returns
\* False, with it the first row is double-clicked and it returns True
\* (rectangle() raises if the grid went away in between).
CheckGrid ==
    /\ InSearch("check")
    /\ \E exists \in BOOLEAN, located \in BOOLEAN :
          IF GridMissing(fn.grid, exists)
          THEN fn' = [fn EXCEPT !.at = "returned", !.ret = FALSE]
          ELSE LET seen == [fn EXCEPT !.gridSeen = (fn.gridSeen \/ (fn.grid /\ exists))]
               IN  IF located
                   THEN fn' = [seen EXCEPT !.at = "returned", !.ret = TRUE,
                                           !.doubleClicks = fn.doubleClicks + 1]
                   ELSE fn' = [seen EXCEPT !.at = "raised"]
    /\ UNCHANGED script

NextSearch ==
    \/ SearchFilters
    \/ SetDateAttempt
    \/ SubmitSearch
    \/ PollDialog
    \/ PollGrid
    \/ CheckGrid

SpecSearch == InitSearch /\ [][NextSearch]_vars

Pickers == 1..Len(fn.shown)

\* C13, state part: no control is attempted more than 3 times; a warning
\* belongs to a control whose 3 attempts all failed verification; the search
\* is clicked only when every control was either verified or warned about.
C13_RetryBound ==
    fn.name = "search_and_open" =>
       /\ \A i \in Pickers :
             /\ fn.made[i] <= 3
             /\ fn.warned[i] => fn.made[i] = 3 /\ ~fn.verified[i]
       /\ fn.searchClicks > 0 =>
             \A i \in Pickers : fn.verified[i] \/ fn.warned[i]

\* C13, step part: a verified control is not attempted again, and the step
\* that ends in the warning raises nothing and moves on to the next control
\* (or, after the last one, to the search click).
C13_RetryStep ==
    \A i \in Pickers :
       /\ fn.verified[i] => fn'.made[i] = fn.made[i]
       /\ (~fn.warned[i] /\ fn'.warned[i]) =>
             /\ fn'.at = "dates"
             /\ fn'.i = i + 1
             /\ (i = Len(fn.shown) => fn'.i > Len(fn'.shown))

\* C13: each date-picker control is set at most 3 times, never again once an
\* attempt verified, and 3 failed verifications end in a warning (no
\* exception) after which the routine goes on to the next control and then
\* to the search click.
C13_DatePickerRetry == []C13_RetryBound /\ [][C13_RetryStep]_vars

\* The search was clicked after the first control got its warning on the
\* third attempt and the second verified on a retry.
C13_Witness ==
    /\ InSearch("dialog")
    /\ fn.searchClicks = 1
    /\ Len(fn.shown) = 2
    /\ fn.warned[1] /\ fn.made[1] = 3
    /\ fn.verified[2] /\ fn.made[2] = 2

\* C16: a control counts as set correctly only while it shows exactly the
\* search date (year, month and day).
C16_ExactDateOnly ==
    fn.name = "search_and_open" =>
       \A i \in Pickers : fn.verified[i] => fn.shown[i] = fn.now

\* C19: the grid wait loop runs at most 20 times; a return without the grid
\* ever having been observed is a failure with no double-click; a success
\* comes with the grid observed and exactly one double-click.
C19_GridWait ==
    fn.name = "search_and_open" =>
       /\ fn.gridPolls <= 20
       /\ fn.doubleClicks <= 1
       /\ (fn.at = "returned" /\ ~fn.gridSeen) =>
             ~fn.ret /\ fn.doubleClicks = 0
       /\ (fn.at = "returned" /\ fn.ret) =>
             fn.gridSeen /\ fn.doubleClicks = 1

\* Success after the grid showed up on the 20th pass only.
C19_Witness ==
    /\ InSearch("returned")
    /\ fn.ret
    /\ fn.gridPolls = 20
    /\ fn.doubleClicks = 1

----------------------------------------------------------------------------
(* The report count, lines 666-678.                                        *)

CountAsked == \E i \in DOMAIN console : console[i] = "Number of reports: "

\* C15, state part: once the count was read, it is the number typed if that
\* is an integer >= 1, and 1 if it is an integer below 1 or not a number; so
\* it is never below 1.
C15_CountParsed ==
    CountAsked =>
       LET n == int(fn.num_input)
       IN  /\ num_reports >= 1
           /\ (~n.raises /\ n.value >= 1) => num_reports = n.value
           /\ (~n.raises /\ n.value < 1) => num_reports = 1
           /\ n.raises => num_reports = 1

\* C15, step part: the for statement reached after a successful search
\* enters its first iteration.
C15_FirstIteration ==
    (pc = "Selected" /\ it = 0) =>
       /\ it' = 1
       /\ log' = Append(log, Entry("PROCESSING REPORT", 1, num_reports))

\* C15: the report count is the integer typed when that is >= 1 and 1
\* otherwise (0, negative, not a number), hence always >= 1, and the
\* per-report loop runs at least one iteration after a successful search.
C15_ReportCount == []C15_CountParsed /\ [][C15_FirstIteration]_vars

\* "0" was typed, the search succeeded and the first iteration began.
C15_Witness ==
    /\ fn.num_input = <<"0">>
    /\ num_reports = 1
    /\ it = 1
    /\ pc = "Extracting"

----------------------------------------------------------------------------
(* prompt_for_date on its own, lines 97-138.                               *)

\* Most parts (texts between separators) of a typed date.
MaxParts == 3

\* The parts a typed date is made of: years (one leap), months and days in
\* and out of range, padded and signed numbers, text that is no number.
DateParts ==
    {<<"2", "0", "2", "4">>,
     <<"2", "0", "2", "3">>,
     <<"0">>,
     <<"2">>,
     <<"0", "2">>,
     <<"1", "3">>,
     <<"2", "9">>,
     <<"3", "1">>,
     <<"x">>,
     <<>>,
     <<" ", "4">>,
     <<"+", "3">>}

Separators == {"/", "-"}

RECURSIVE DateInputs(_)
DateInputs(n) ==
    IF n = 1 THEN DateParts
    ELSE {t \o <<sep>> \o part :
             t \in DateInputs(n - 1), sep \in Separators, part \in DateParts}

\* datetime.now() of line 99 (the time of day plays no part).
Todays == {Date(2023, 3, 5), Date(2024, 2, 29)}

\* str.replace(old, new) for one-character old and new.
Replace(s, old, new) == [i \in DOMAIN s |-> IF s[i] = old THEN new ELSE s[i]]

\* str.split(sep) for a one-character sep.
RECURSIVE Split(_, _)
Split(s, sep) ==
    LET cuts == {i \in DOMAIN s : s[i] = sep}
    IN  IF cuts = {} THEN <<s>>
        ELSE LET c == CHOOSE i \in cuts : \A j \in cuts : i <= j
             IN  <<SubSeq(s, 1, c - 1)>> \o Split(SubSeq(s, c + 1, Len(s)), sep)

IsLeap(y) == y % 4 = 0 /\ (y % 100 # 0 \/ y % 400 = 0)

DaysInMonth(y, m) ==
    IF m = 2 THEN (IF IsLeap(y) THEN 29 ELSE 28)
    ELSE IF m \in {4, 6, 9, 11} THEN 30
    ELSE 31

\* datetime(year, month, day) that accepts any numbers.
datetimeUnchecked(y, m, d) == [raises |-> FALSE, value |-> Date(y, m, d)]

\* datetime(year, month, day), line 132: ValueError unless the year is in
\* 1..9999, the month in 1..12 and the day in the month.
datetime(y, m, d) ==
    IF y \in 1..9999 /\ m \in 1..12 /\ d \in 1..DaysInMonth(y, m)
    THEN [raises |-> FALSE, value |-> Date(y, m, d)]
    ELSE [raises |-> TRUE, value |-> Date(0, 0, 0)]

\* Lines 107-138 on the text read by input(): what is returned, and whether
\* an exception leaves the function (the except of line 135 catches all the
\* try block can raise).
prompt_for_date(today, typed_text) ==
    LET user_input == strip(typed_text, Whitespace)
        normalized == Replace(user_input, "-", "/")
        parts == Split(normalized, "/")
        n == [i \in DOMAIN parts |-> int(parts[i])]
        parsed ==
            IF Len(parts) = 3
            THEN IF n[1].raises \/ n[2].raises \/ n[3].raises
                 THEN [raises |-> TRUE, value |-> Date(0, 0, 0)]
                 ELSE datetime(n[1].value, n[2].value, n[3].value)
            ELSE IF Len(parts) = 2
            THEN IF n[1].raises \/ n[2].raises
                 THEN [raises |-> TRUE, value |-> Date(0, 0, 0)]
                 ELSE datetime(today.year, n[1].value, n[2].value)
            ELSE [raises |-> TRUE, value |-> Date(0, 0, 0)]
    IN  IF user_input = <<>> THEN [raises |-> FALSE, value |-> today]
        ELSE IF parsed.raises THEN [raises |-> FALSE, value |-> today]
        ELSE [raises |-> FALSE, value |-> parsed.value]

InitDate ==
    /\ AtRest
    /\ \E today \in Todays, k \in 1..MaxParts :
          \E t \in DateInputs(k) :
             fn = [name |-> "prompt_for_date", today |-> today,
                   input |-> t, at |-> "prompt",
                   result |-> Date(0, 0, 0)]

\* One call of prompt_for_date(), reading fn.input at the prompt.
DateCall ==
    /\ fn.name = "prompt_for_date"
    /\ fn.at = "prompt"
    /\ LET r == prompt_for_date(fn.today, fn.input)
       IN  fn' = [fn EXCEPT !.at = IF r.raises THEN "raised" ELSE "returned",
                            !.result = r.value]
    /\ UNCHANGED script

SpecDate == InitDate /\ [][DateCall]_vars

\* A year, month and day of the calendar.
IsCalendarDate(y, m, d) ==
    /\ y \in 1..9999
    /\ m \in 1..12
    /\ d >= 1
    /\ d <= 31
    /\ m \in {4, 6, 9, 11} => d <= 30
    /\ m = 2 => d <= 29
    /\ (m = 2 /\ d = 29) => (y % 4 = 0 /\ (y % 100 # 0 \/ y % 400 = 0))

\* C14: prompt_for_date raises nothing and returns a calendar date: the typed
\* year/month/day (separators / or -), or month/day in the current year, if
\* those are numbers denoting a calendar date; today's date for blank input
\* and for every other input.
C14_DatePrompt ==
    (fn.name = "prompt_for_date" /\ fn.at # "prompt") =>
       LET text == strip(fn.input, Whitespace)
           parts == Split(Replace(text, "-", "/"), "/")
           n == [i \in DOMAIN parts |-> int(parts[i])]
           numeric == \A i \in DOMAIN parts : ~n[i].raises
           y == IF Len(parts) = 3 THEN n[1].value ELSE fn.today.year
           m == IF Len(parts) = 3 THEN n[2].value ELSE n[1].value
           d == IF Len(parts) = 3 THEN n[3].value ELSE n[2].value
           denotes == Len(parts) \in {2, 3} /\ numeric /\ IsCalendarDate(y, m, d)
       IN  /\ fn.at = "returned"
           /\ IsCalendarDate(fn.result.year, fn.result.month, fn.result.day)
           /\ text = <<>> => fn.result = fn.today
           /\ denotes => fn.result = Date(y, m, d)
           /\ ~denotes => fn.result = fn.today

\* "2023-02-29" was typed on 29 February 2024: no such day, today is returned.
C14_Witness ==
    /\ fn.name = "prompt_for_date"
    /\ fn.at = "returned"
    /\ fn.input = <<"2", "0", "2", "3", "-", "0", "2", "-", "2", "9">>
    /\ fn.today = Date(2024, 2, 29)
    /\ fn.result = Date(2024, 2, 29)

----------------------------------------------------------------------------
(* Cross-patient consistency of the captured image, lines 412-474, 693-701. *)

\* C17: every captured image shows the study of the report in whose
\* iteration it was captured, never the previous report's.
C17_ImageOfOwnStudy ==
    \A i \in DOMAIN captures : captures[i].study = captures[i].k

----------------------------------------------------------------------------
(* extract_image on its own, lines 409-485.                                *)

\* range(15), line 416; range(3), line 460.
ViewerPolls == 15
CopyAttempts == 3

\* The image file as extract_image leaves it: not written, written whole
\* with the image of the img-th clipboard read, or left incomplete by a
\* save that failed part-way.
Unwritten == [written |-> FALSE, complete |-> FALSE, img |-> 0]
Saved(n) == [written |-> TRUE, complete |-> TRUE, img |-> n]
Incomplete(n) == [written |-> TRUE, complete |-> FALSE, img |-> n]

\* Lines 460-473 as a loop that retries until an image is read.
AfterReadUntilImage(img, copies) == IF img # 0 THEN "save" ELSE "copy"

\* Lines 470-473 without the break.
AfterReadNoBreak(img, copies) ==
    IF copies < CopyAttempts THEN "copy" ELSE "save"

\* Lines 470-473: break on an image, else the next attempt while there is one.
AfterRead(img, copies) ==
    IF img # 0 THEN "save"
    ELSE IF copies < CopyAttempts THEN "copy"
    ELSE "save"

InitExtract ==
    /\ AtRest
    /\ fn = [name |-> "extract_image",
             at |-> "viewer",
             viewerPolls |-> 0,
             pacs_win |-> FALSE,
             keys |-> <<>>,
             reads |-> <<>>,
             img |-> 0,
             save |-> "none",
             file |-> Unwritten,
             ret |-> FALSE]

InExtract(at) == fn.name = "extract_image" /\ fn.at = at

\* Lines 416-426, one pass of the wait loop: the windows are listed (which
\* may raise) and a visible viewer is there or not; after 15 passes without
\* one, "PACS viewer not found" and False.
PollViewer ==
    /\ InExtract("viewer")
    /\ \E seen \in {"viewer", "none", "error"} :
          LET polls == fn.viewerPolls + 1
          IN  fn' = [fn EXCEPT !.viewerPolls = polls,
                               !.pacs_win = (seen = "viewer"),
                               !.at = IF seen = "error" THEN "raised"
                                      ELSE IF seen = "viewer" THEN "found"
                                      ELSE IF polls = ViewerPolls THEN "returned"
                                      ELSE "viewer"]
    /\ UNCHANGED script

\* Lines 428-456: focus, empty the clipboard, focus again, send Ctrl+I.
ClearAndAnonymize ==
    /\ InExtract("found")
    /\ fn' = [fn EXCEPT !.keys = fn.keys \o <<"clear", "^i">>, !.at = "copy"]
    /\ UNCHANGED script

\* Lines 460-473, one pass: Ctrl+C, then the clipboard is read; img is what
\* this read gave (0 for None, else the number of the read).
CopyAttempt ==
    /\ InExtract("copy")
    /\ \E image \in BOOLEAN :
          LET copies == Len(fn.reads) + 1
              img == IF image THEN copies ELSE 0
          IN  fn' = [fn EXCEPT !.keys = Append(fn.keys, "^c"),
                               !.reads = Append(fn.reads, image),
                               !.img = img,
                               !.at = AfterRead(img, copies)]
    /\ UNCHANGED script

\* Lines 476-485: no image, False; else the image is saved and True, or the
\* save raises (leaving no file or an incomplete one) and False.
SaveImage ==
    /\ InExtract("save")
    /\ IF fn.img = 0
       THEN fn' = [fn EXCEPT !.at = "returned", !.ret = FALSE]
       ELSE \E saves \in BOOLEAN, partial \in BOOLEAN :
               IF saves
               THEN fn' = [fn EXCEPT !.at = "returned", !.ret = TRUE,
                                     !.save = "ok", !.file = Saved(fn.img)]
               ELSE fn' = [fn EXCEPT !.at = "returned", !.ret = FALSE,
                                     !.save = "failed",
                                     !.file = IF partial THEN Incomplete(fn.img)
                                              ELSE fn.file]
    /\ UNCHANGED script

NextExtract ==
    \/ PollViewer
    \/ ClearAndAnonymize
    \/ CopyAttempt
    \/ SaveImage

SpecExtract == InitExtract /\ [][NextExtract]_vars

AllReadsEmpty == Len(fn.reads) = 3 /\ \A i \in 1..3 : ~fn.reads[i]

\* The parts of C18 before the return: clear and anonymize precede the
\* first copy, at most 3 copies, no copy after a read that gave an image,
\* and the file written is the image of that read.
ClipboardOrder ==
    /\ \A i \in DOMAIN fn.keys :
          fn.keys[i] = "^c" =>
             \E a, b \in 1..(i - 1) :
                a < b /\ fn.keys[a] = "clear" /\ fn.keys[b] = "^i"
    /\ Cardinality({i \in DOMAIN fn.keys : fn.keys[i] = "^c"}) = Len(fn.reads)
    /\ Len(fn.reads) <= 3
    /\ \A i \in 1..(Len(fn.reads) - 1) : ~fn.reads[i]
    /\ fn.file.written =>
          /\ fn.file.img = Len(fn.reads)
          /\ fn.reads[fn.file.img]

FailedInClipboardPhase == InExtract("returned") /\ fn.pacs_win /\ ~fn.ret

\* C18 as stated: every failure of the clipboard phase leaves no image file
\* written, also when it is the save that failed.
C18_AsClaimed ==
    fn.name = "extract_image" =>
       /\ ClipboardOrder
       /\ (InExtract("returned") /\ fn.pacs_win) =>
             (~fn.ret <=> (AllReadsEmpty \/ fn.save = "failed"))
       /\ FailedInClipboardPhase => ~fn.file.written

\* C18: the clipboard is cleared and Ctrl+I sent before the first Ctrl+C;
\* at most 3 copies; copying stops at the first read with an image, which is
\* the image saved; once a viewer was found the extraction fails exactly
\* when all 3 reads were empty or the save failed; it then leaves no
\* complete image file, and no file at all when the reads were empty.
C18_ClipboardRetry ==
    fn.name = "extract_image" =>
       /\ ClipboardOrder
       /\ (InExtract("returned") /\ fn.pacs_win) =>
             (~fn.ret <=> (AllReadsEmpty \/ fn.save = "failed"))
       /\ FailedInClipboardPhase => ~fn.file.complete
       /\ (FailedInClipboardPhase /\ AllReadsEmpty) => ~fn.file.written

\* The third read gave the image and it was saved.
C18_Witness ==
    /\ InExtract("returned")
    /\ fn.ret
    /\ fn.reads = <<FALSE, FALSE, TRUE>>
    /\ fn.keys = <<"clear", "^i", "^c", "^c", "^c">>
    /\ fn.file = Saved(3)

----------------------------------------------------------------------------
(* enter_report on its own, lines 571-633.                                 *)

\* Longest findings text given to enter_report.
MaxFindings == 2

FindingsChars == {"a", "+", "\n"}

\* Lines 605-608 without the sleep.
ExtraWaitNone(date_pickers_exist) == 0

\* Lines 605-608: one sleep of 3 s if a date picker was seen, none otherwise.
ExtraWait(date_pickers_exist) == IF date_pickers_exist THEN 1 ELSE 0

InitEnter ==
    /\ AtRest
    /\ \E f \in TextsOver(FindingsChars, MaxFindings) :
          fn = [name |-> "enter_report",
                findings |-> f,
                at |-> "start",
                checked |-> "none",
                date_pickers_exist |-> FALSE,
                waits |-> 0,
                boxSeen |-> FALSE,
                clicks |-> 0,
                keys |-> <<>>]

InEnter(at) == fn.name = "enter_report" /\ fn.at = at

\* Lines 573-584: empty findings return at once; else the 2 s settle sleep.
EnterStart ==
    /\ InEnter("start")
    /\ fn' = [fn EXCEPT !.at = IF fn.findings = <<>> THEN "returned" ELSE "check"]
    /\ UNCHANGED script

\* Lines 593-608: the descendants of the main window are scanned for a
\* visible date picker; the scan finds one, finds none, or raises (swallowed,
\* the flag stays False). One further sleep follows if the flag is set.
CheckPickers ==
    /\ InEnter("check")
    /\ \E seen \in {"visible", "clear", "error"} :
          fn' = [fn EXCEPT !.checked = seen,
                           !.date_pickers_exist = (seen = "visible"),
                           !.waits = ExtraWait(seen = "visible"),
                           !.at = "focus"]
    /\ UNCHANGED script

\* Lines 610-616: set_focus on the main window; if it raises, "Error finding
\* window" and return.
FocusEditor ==
    /\ InEnter("focus")
    /\ \E focused \in BOOLEAN :
          fn' = [fn EXCEPT !.at = IF focused THEN "box" ELSE "returned"]
    /\ UNCHANGED script

\* Lines 618-633: the EXAM box is looked up; if it exists it is clicked and
\* the keys are typed (a raising click is caught and nothing is typed).
EnterBox ==
    /\ InEnter("box")
    /\ \E outcome \in {"no_box", "click_fails", "typed"} :
          fn' = [fn EXCEPT !.at = "returned",
                           !.boxSeen = (outcome # "no_box"),
                           !.clicks = IF outcome = "typed" THEN 1 ELSE 0,
                           !.keys = enter_report(Str(fn.findings), outcome).keys]
    /\ UNCHANGED script

NextEnter ==
    \/ EnterStart
    \/ CheckPickers
    \/ FocusEditor
    \/ EnterBox

SpecEnter == InitEnter /\ [][NextEnter]_vars

ClickedOrTyped == fn.clicks > 0 \/ fn.keys # <<>>

\* C20 as stated: whatever is clicked or typed follows an observation that
\* no date picker is visible.
C20_AsClaimed ==
    (fn.name = "enter_report" /\ ClickedOrTyped) => fn.checked = "clear"

\* C20: enter_report clicks and types only after its one scan for visible
\* date pickers is over and after it saw the EXAM box; if the scan found a
\* date picker it sleeps once more (and does not scan again) before going
\* on, and otherwise it does not; the keys typed are Ctrl+End and then Enter
\* and the escaped findings.
C20_EntryAfterCheck ==
    fn.name = "enter_report" =>
       /\ ClickedOrTyped =>
             /\ fn.checked # "none"
             /\ fn.boxSeen
             /\ fn.clicks = 1
             /\ fn.keys = <<CtrlEnd, ENTER \o escape_for_type_keys(fn.findings)>>
       /\ fn.checked = "visible" => fn.waits = 1
       /\ fn.checked # "visible" => fn.waits = 0

\* The scan saw a date picker, one sleep followed, and the findings were
\* typed all the same.
C20_Witness ==
    /\ InEnter("returned")
    /\ fn.checked = "visible"
    /\ fn.waits = 1
    /\ fn.findings = <<"a", "+">>
    /\ fn.keys = <<CtrlEnd, ENTER \o <<"a", "{", "+", "}">>>>

----------------------------------------------------------------------------
(* The outputs of a failed analysis, lines 523-568.                        *)

\* C21 (as claimed): an analysis call whose request met a network error or a
\* non-2xx response returns None and leaves the report file and the raw
\* log as they were; the report file changes only in a call that decoded a
\* response body.
C21_FailureLeavesOutputs ==
    [][pc = "Analyzing" =>
         /\ (\/ lastResponse'.kind = "neterr"
             \/ lastResponse'.kind = "http" /\ lastResponse'.status \notin 200..299)
            => /\ findings' = None
               /\ reportFile' = reportFile
               /\ rawLog' = rawLog
         /\ reportFile' # reportFile
            => /\ lastResponse'.kind = "http"
               /\ lastResponse'.body.shape # "invalid"]_vars

----------------------------------------------------------------------------
(* The raw-output log, lines 541-558.                                      *)

RawWrites == SelectSeq(writes, LAMBDA w : w.file = "raw_output.txt")

\* C22, state part: every write of the report file comes right after an
\* append to the raw log of the text it was cleaned from; the raw log is
\* only ever opened for appending and holds the appended texts in order; the
\* latest appended text is the text decoded from the latest answer.
C22_RawBeforeReport ==
    /\ \A i \in DOMAIN writes :
          /\ writes[i].file = "report.txt" =>
                /\ i > 1
                /\ writes[i - 1].file = "raw_output.txt"
                /\ writes[i].text = Cleanup(writes[i - 1].text)
          /\ writes[i].file = "raw_output.txt" => writes[i].mode = "a"
    /\ rawLog = [i \in DOMAIN RawWrites |-> RawWrites[i].text]
    /\ (lastResponse.kind = "http" /\ reportFile.iter = report_num + 1
           /\ reportFile.exists /\ reportFile.iter > 0) =>
          rawLog[Len(rawLog)] = Decode(lastResponse.body).content

\* C22, step part: the raw log only grows at its end, and a step that
\* writes the report file also appends to the raw log.
C22_AppendOnly ==
    /\ Len(rawLog') >= Len(rawLog)
    /\ SubSeq(rawLog', 1, Len(rawLog)) = rawLog
    /\ reportFile' # reportFile => Len(rawLog') = Len(rawLog) + 1

\* C22: in every analysis call that writes the report file the unprocessed
\* generated text was appended to the raw log earlier in that call, and the
\* raw log is only ever appended to.
C22_RawLoggedFirst == []C22_RawBeforeReport /\ [][C22_AppendOnly]_vars

\* The second report's answer echoed the prompt and repeated itself: the raw
\* log holds it whole, after the first report's, and the report file holds
\* the cleaned text.
C22_Witness ==
    /\ Len(rawLog) = 2
    /\ rawLog[2] = EchoText
    /\ reportFile.exists
    /\ reportFile.iter = 2
    /\ reportFile.text = Cleanup(EchoText)
    /\ reportFile.text # EchoText

----------------------------------------------------------------------------
(* Termination: the script, and search_and_open and extract_image with     *)
(* their wait loops, each run to its end.                                  *)

\* search_and_open is followed on windows of up to two date pickers.
InitRun ==
    \/ Init
    \/ InitSearch /\ Len(fn.shown) <= 2
    \/ InitExtract

\* A step of the script, or a step inside search_and_open or extract_image.
NextRun ==
    \/ fn.name = "__main__" /\ Next
    \/ NextSearch
    \/ NextExtract

\* The script is sequential and every call returns (input() included):
\* whatever step is next is eventually taken.
FairRun == InitRun /\ [][NextRun]_vars /\ WF_vars(NextRun)

\* Every wait site within its limit, and the automation steps of the script
\* within one search plus five per requested report.
WaitsBounded ==
    /\ fn.name = "search_and_open" =>
          /\ fn.dialogPolls <= 10
          /\ fn.gridPolls <= 20
          /\ \A i \in DOMAIN fn.made : fn.made[i] <= 3
    /\ fn.name = "extract_image" =>
          /\ fn.viewerPolls <= 15
          /\ Len(fn.reads) <= 3
    /\ fn.name = "__main__" =>
          /\ it <= num_reports
          /\ Len(steps) <= 1 + 5 * num_reports

\* The script has ended; or the function followed on its own has.
RunEnded ==
    IF fn.name = "__main__" THEN Terminated
    ELSE fn.at \in {"returned", "raised"}

\* A script that read a report count ends Completed or Aborted.
EndsCompletedOrAborted ==
    (fn.name = "__main__" /\ CountAsked /\ Terminated)
       => pc \in {"Completed", "Aborted"}

\* C23: every wait loop stays within its limit (dialog 10, grid 20, viewer
\* 15, clipboard reads 3, date attempts 3 per control), the script takes a
\* bounded number of automation steps, search_and_open and extract_image
\* always come to an end, and so does the script: Completed or Aborted once
\* a report count was read.
C23_Termination ==
    /\ []WaitsBounded
    /\ []EndsCompletedOrAborted
    /\ <>RunEnded

\* Two reports were asked for and the script completed them with every
\* automation step taken: the search and five steps per report but the last
\* page turn.
C23_Witness ==
    /\ fn.name = "__main__"
    /\ pc = "Completed"
    /\ num_reports = 2
    /\ Len(steps) = 10

----------------------------------------------------------------------------
(* The final summary, lines 711-716.                                       *)

SummaryTags ==
    {"[OK] ALL REPORTS COMPLETED SUCCESSFULLY!",
     "[FAIL] WORKFLOW FINISHED WITH ERRORS"}

CompletedEntries == {i \in DOMAIN log : log[i].tag = CompletedTag}

\* C24: the summary entry carries the number of "report completed" entries
\* of the run: the requested count on the success path, and on the failure
\* path the number of reports completed before the failing one.
C24_SummaryCount ==
    \A i \in DOMAIN log :
       log[i].tag \in SummaryTags =>
          /\ i = Len(log)
          /\ log[i].k = Cardinality(CompletedEntries)
          /\ log[i].tag = "[OK] ALL REPORTS COMPLETED SUCCESSFULLY!" =>
                /\ log[i].k = num_reports
                /\ \A j \in 1..num_reports :
                      \E c \in CompletedEntries : log[c].k = j
          /\ log[i].tag = "[FAIL] WORKFLOW FINISHED WITH ERRORS" =>
                /\ log[i].k < num_reports
                /\ log[i].n = num_reports
                /\ \A c \in CompletedEntries : log[c].k <= log[i].k
                /\ \E f \in DOMAIN log :
                      /\ log[f].tag \in {"[FAIL] Failed to extract image",
                                         "[FAIL] Failed to analyze image"}
                      /\ log[f].k = log[i].k + 1

\* Report 1 completed and report 2 failed: "completed 1 of 2".
C24_Witness ==
    /\ pc = "Aborted"
    /\ log # <<>>
    /\ log[Len(log)] = Entry("[FAIL] WORKFLOW FINISHED WITH ERRORS", 1, 2)
    /\ Cardinality(CompletedEntries) = 1

====
